---- MODULE Spec2Model ----
(***************************************************************************)
(* Configuration tools of the Mastra meta-agent (config-tools): the stage  *)
(* operations initialize-config, add-agent, add-tool, update-entry-point,  *)
(* load-config and validate-config, applied by a caller that threads the   *)
(* configuration object from one tool call to the next.                    *)
(*                                                                         *)
(* A JavaScript object is a record; an optional key that is not set is a   *)
(* field the record does not have.  An array is a sequence.  A string map  *)
(* (z.record(z.string())) is a function from its keys to strings.          *)
(*                                                                         *)
(* Two specifications: Spec is a caller that may invoke the configuration  *)
(* tools in any order; Pipeline is the orchestrator agent following the    *)
(* core process of its instructions, with the sub-agent tools              *)
(* (planning-agent, tool-builder-agent, agent-builder-agent) and           *)
(* scaffold-project.                                                       *)
(***************************************************************************)
EXTENDS Naturals, Sequences, FiniteSets, TLC

VARIABLES
  currentConfig,   \* OrchestratorState.currentConfig
  call,            \* the last tool call: id, arguments, result
  plan,            \* OrchestratorState.plan
  phase,           \* OrchestratorState.phase: the part of the process the run is in
  completedSteps,  \* OrchestratorState.completedSteps: ids of the tool calls made
  build,           \* which copy of the sub-agent tools the orchestrator imports
  response,        \* the orchestrator's final response, once given
  disk,            \* the paths that exist under process.cwd()
  failures         \* how many model calls of the run produced no object

orchestratorState == <<plan, phase, completedSteps, build, response, disk, failures>>

vars ==
  <<currentConfig, call, plan, phase, completedSteps, build, response, disk, failures>>

(***************************************************************************)
(* Bounds of the model.                                                    *)
(***************************************************************************)
\* Largest configuration explored: tools + agents + workflows + tool
\* references of the agents.
MaxSize == 4

\* Largest plan the planning agent returns: entries of requiredTools and of
\* requiredAgents.
MaxPlanTools == 9
MaxPlanAgents == 2

\* Most model calls of one run that produce no object.
MaxFailures == 1

(***************************************************************************)
(* JavaScript helpers.                                                     *)
(***************************************************************************)
\* The value of an unset variable (currentConfig?: any).
Undefined == <<>>

\* `key in object`
Has(object, key) == key \in DOMAIN object

\* Truthiness of an optional string: undefined and "" are falsy.
Truthy(object, key) == Has(object, key) /\ object[key] # ""

\* ...(value && { key: value })
SpreadIfTruthy(object, key) ==
  IF Truthy(object, key) THEN [k \in {key} |-> object[key]] ELSE <<>>

\* object[key] = value
SetKey(object, key, value) ==
  [k \in DOMAIN object \cup {key} |-> IF k = key THEN value ELSE object[k]]

\* array.find(x => x.name === name) is not undefined
FindByName(array, name) == \E i \in 1..Len(array) : array[i].name = name

\* All sequences over S of length at most n.
RECURSIVE SeqsUpTo(_, _)
SeqsUpTo(S, n) ==
  IF n = 0 THEN {<<>>}
  ELSE LET shorter == SeqsUpTo(S, n - 1)
       IN shorter \cup {Append(s, x) : s \in {t \in shorter : Len(t) = n - 1}, x \in S}

(***************************************************************************)
(* initialize-config                                                       *)
(***************************************************************************)
DefaultDependencies ==
  [k \in {"@mastra/core", "@ai-sdk/openai", "zod"} |-> "latest"]

\* A variant that takes an empty caller map for no map: the
\* defaults replace it.
initializeConfigTool_EmptyIsUnset(context) ==
  [projectName  |-> context.projectName,
   description  |-> context.description,
   dependencies |-> IF Has(context, "dependencies") /\ context.dependencies # <<>>
                    THEN context.dependencies
                    ELSE DefaultDependencies,
   entryPoint   |-> [type |-> context.entryPointType,
                     name |-> IF context.entryPointType = "agent"
                              THEN "mainAgent" ELSE "mainWorkflow"],
   agents       |-> <<>>,
   tools        |-> <<>>,
   workflows    |-> <<>>]

initializeConfigTool(context) ==
  [projectName  |-> context.projectName,
   description  |-> context.description,
   dependencies |-> IF Has(context, "dependencies")
                    THEN context.dependencies
                    ELSE DefaultDependencies,
   entryPoint   |-> [type |-> context.entryPointType,
                     name |-> IF context.entryPointType = "agent"
                              THEN "mainAgent" ELSE "mainWorkflow"],
   agents       |-> <<>>,
   tools        |-> <<>>,
   workflows    |-> <<>>]

(***************************************************************************)
(* add-agent                                                               *)
(***************************************************************************)
\* A variant whose array check fails: workflows is reset to [].
addAgentTool_ResetsWorkflows(context) ==
  LET config   == context.config
      newAgent == [name         |-> context.name,
                   instructions |-> context.instructions,
                   model        |-> context.model,
                   tools        |-> context.tools]
                  @@ SpreadIfTruthy(context, "description")
  IN  [config EXCEPT !.agents       = Append(config.agents, newAgent),
                     !.dependencies = config.dependencies,
                     !.workflows    = <<>>]

addAgentTool(context) ==
  LET config   == context.config
      newAgent == [name         |-> context.name,
                   instructions |-> context.instructions,
                   model        |-> context.model,
                   tools        |-> context.tools]
                  @@ SpreadIfTruthy(context, "description")
  IN  [config EXCEPT !.agents       = Append(config.agents, newAgent),
                     !.dependencies = config.dependencies,
                     !.workflows    = config.workflows]

(***************************************************************************)
(* add-tool                                                                *)
(***************************************************************************)
\* for (const dep of dependencies) updatedDependencies[dep] = "latest"
RECURSIVE MergeDependencies(_, _)
MergeDependencies(updatedDependencies, dependencies) ==
  IF dependencies = <<>> THEN updatedDependencies
  ELSE MergeDependencies(SetKey(updatedDependencies, Head(dependencies), "latest"),
                         Tail(dependencies))

\* A variant that puts the new tool first: [newTool, ...config.tools].
addToolTool_Prepend(context) ==
  LET config  == context.config
      newTool == [name        |-> context.name,
                  description |-> context.description,
                  inputSchema |-> context.inputSchema,
                  code        |-> context.code]
                 @@ SpreadIfTruthy(context, "outputSchema")
  IN  [config EXCEPT !.tools        = <<newTool>> \o config.tools,
                     !.dependencies =
                       IF Has(context, "dependencies")
                       THEN MergeDependencies(config.dependencies, context.dependencies)
                       ELSE config.dependencies]

\* A variant that keeps only the dependencies of the tool it adds.
addToolTool_OwnDependencies(context) ==
  LET config  == context.config
      newTool == [name        |-> context.name,
                  description |-> context.description,
                  inputSchema |-> context.inputSchema,
                  code        |-> context.code]
                 @@ SpreadIfTruthy(context, "outputSchema")
      updatedDependencies ==
        IF Has(context, "dependencies")
        THEN MergeDependencies(<<>>, context.dependencies)
        ELSE config.dependencies
  IN  [config EXCEPT !.tools        = Append(config.tools, newTool),
                     !.dependencies = updatedDependencies,
                     !.workflows    = config.workflows]

addToolTool(context) ==
  LET config  == context.config
      newTool == [name        |-> context.name,
                  description |-> context.description,
                  inputSchema |-> context.inputSchema,
                  code        |-> context.code]
                 @@ SpreadIfTruthy(context, "outputSchema")
      updatedDependencies ==
        IF Has(context, "dependencies")
        THEN MergeDependencies(config.dependencies, context.dependencies)
        ELSE config.dependencies
  IN  [config EXCEPT !.tools        = Append(config.tools, newTool),
                     !.dependencies = updatedDependencies,
                     !.workflows    = config.workflows]

(***************************************************************************)
(* update-entry-point                                                      *)
(***************************************************************************)
\* A variant that renames the entry point and keeps its type.
updateEntryPointTool_KeepsType(context) ==
  [context.config EXCEPT !.entryPoint = [type |-> context.config.entryPoint.type,
                                         name |-> context.name]]

updateEntryPointTool(context) ==
  [context.config EXCEPT !.entryPoint = [type |-> context.type,
                                         name |-> context.name]]

(***************************************************************************)
(* load-config                                                             *)
(*                                                                         *)
(* A JSON text is modelled by what JSON.parse makes of it: a syntax error, *)
(* or the value it denotes.  The schema is checked on the keys and on the  *)
(* entry point's enum; zod drops the keys the schema does not know.        *)
(***************************************************************************)
AgentConfigKeys    == {"name", "instructions", "model", "tools"}
ToolConfigKeys     == {"name", "description", "inputSchema", "code"}
WorkflowStepKeys   == {"id", "type"}
WorkflowConfigKeys == {"name", "description", "inputSchema", "outputSchema", "steps"}
FinalAgentConfigKeys ==
  {"projectName", "description", "dependencies", "entryPoint",
   "agents", "tools", "workflows"}

\* z.object(...) strips unknown keys
Strip(object, keys) == [k \in DOMAIN object \cap keys |-> object[k]]

MapSeq(array, F(_)) == [i \in 1..Len(array) |-> F(array[i])]

WorkflowConfigSchemaOk(w) ==
  /\ WorkflowConfigKeys \subseteq DOMAIN w
  /\ \A i \in 1..Len(w.steps) : WorkflowStepKeys \subseteq DOMAIN w.steps[i]

FinalAgentConfigSchemaOk(value) ==
  /\ FinalAgentConfigKeys \subseteq DOMAIN value
  /\ {"type", "name"} \subseteq DOMAIN value.entryPoint
  /\ value.entryPoint.type \in {"agent", "workflow"}
  /\ \A i \in 1..Len(value.agents) : AgentConfigKeys \subseteq DOMAIN value.agents[i]
  /\ \A i \in 1..Len(value.tools) : ToolConfigKeys \subseteq DOMAIN value.tools[i]
  /\ \A i \in 1..Len(value.workflows) : WorkflowConfigSchemaOk(value.workflows[i])

StripAgent(a) == Strip(a, AgentConfigKeys \cup {"description"})
StripTool(t) == Strip(t, ToolConfigKeys \cup {"outputSchema"})
StripStep(s) == Strip(s, WorkflowStepKeys \cup {"config"})
StripWorkflow(w) ==
  [Strip(w, WorkflowConfigKeys) EXCEPT !.steps = MapSeq(w.steps, StripStep)]

FinalAgentConfigSchemaParse(value) ==
  [Strip(value, FinalAgentConfigKeys) EXCEPT
     !.entryPoint = Strip(value.entryPoint, {"type", "name"}),
     !.agents     = MapSeq(value.agents, StripAgent),
     !.tools      = MapSeq(value.tools, StripTool),
     !.workflows  = MapSeq(value.workflows, StripWorkflow)]

\* The result of a call that may throw.
Returned(value) == [threw |-> FALSE, returned |-> value]
Threw(message)  == [threw |-> TRUE, error |-> message]

\* A variant that returns what JSON.parse made of the text, unchecked.
loadConfigTool_Unvalidated(context) ==
  IF context.configJson.syntaxError
  THEN Threw("Invalid configuration: SyntaxError")
  ELSE Returned(context.configJson.value)

loadConfigTool(context) ==
  IF context.configJson.syntaxError
  THEN Threw("Invalid configuration: SyntaxError")
  ELSE IF ~FinalAgentConfigSchemaOk(context.configJson.value)
  THEN Threw("Invalid configuration: ZodError")
  ELSE Returned(FinalAgentConfigSchemaParse(context.configJson.value))

(***************************************************************************)
(* validate-config                                                         *)
(***************************************************************************)
\* A variant that looks the entry point up among the agents whatever its type.
EntryPointErrors_AgentsOnly(config) ==
  IF FindByName(config.agents, config.entryPoint.name) THEN <<>>
  ELSE <<"Entry point agent '" \o config.entryPoint.name
         \o "' not found in agents list">>

EntryPointErrors(config) ==
  IF config.entryPoint.type = "agent"
  THEN IF FindByName(config.agents, config.entryPoint.name) THEN <<>>
       ELSE <<"Entry point agent '" \o config.entryPoint.name
              \o "' not found in agents list">>
  ELSE IF config.entryPoint.type = "workflow"
  THEN IF FindByName(config.workflows, config.entryPoint.name) THEN <<>>
       ELSE <<"Entry point workflow '" \o config.entryPoint.name
              \o "' not found in workflows list">>
  ELSE <<>>

ToolError(toolName, agentName) ==
  "Tool '" \o toolName \o "' used by agent '" \o agentName
  \o "' not found in tools list"

\* A variant that looks the tool names up among the agents:
\* config.agents.find(t => t.name === toolName).
RECURSIVE AgentToolErrors_InAgents(_, _, _)
AgentToolErrors_InAgents(config, agent, toolNames) ==
  IF toolNames = <<>> THEN <<>>
  ELSE (IF FindByName(config.agents, Head(toolNames)) THEN <<>>
        ELSE <<ToolError(Head(toolNames), agent.name)>>)
       \o AgentToolErrors_InAgents(config, agent, Tail(toolNames))

\* A variant that leaves the inner loop at the first missing tool (break).
RECURSIVE AgentToolErrors_Break(_, _, _)
AgentToolErrors_Break(config, agent, toolNames) ==
  IF toolNames = <<>> THEN <<>>
  ELSE IF FindByName(config.tools, Head(toolNames))
       THEN AgentToolErrors_Break(config, agent, Tail(toolNames))
       ELSE <<ToolError(Head(toolNames), agent.name)>>

\* for (const toolName of agent.tools) ...
RECURSIVE AgentToolErrors(_, _, _)
AgentToolErrors(config, agent, toolNames) ==
  IF toolNames = <<>> THEN <<>>
  ELSE (IF FindByName(config.tools, Head(toolNames)) THEN <<>>
        ELSE <<ToolError(Head(toolNames), agent.name)>>)
       \o AgentToolErrors(config, agent, Tail(toolNames))

\* for (const agent of config.agents) ...
RECURSIVE AllToolErrors(_, _)
AllToolErrors(config, agents) ==
  IF agents = <<>> THEN <<>>
  ELSE AgentToolErrors(config, Head(agents), Head(agents).tools)
       \o AllToolErrors(config, Tail(agents))

\* A variant that returns at the first failed check.
validateConfigTool_ShortCircuit(context) ==
  LET config == context.config
      errors == IF EntryPointErrors(config) # <<>>
                THEN EntryPointErrors(config)
                ELSE AllToolErrors(config, config.agents)
  IN  [isValid |-> Len(errors) = 0,
       errors  |-> errors,
       config  |-> config]

\* A variant that "prepares" the configuration it echoes: it drops the tool
\* references it has reported.
validateConfigTool_Repairing(context) ==
  LET config == context.config
      errors == EntryPointErrors(config) \o AllToolErrors(config, config.agents)
      Resolves(toolName) == FindByName(config.tools, toolName)
      repaired(agent) == [agent EXCEPT !.tools = SelectSeq(agent.tools, Resolves)]
  IN  [isValid |-> Len(errors) = 0,
       errors  |-> errors,
       config  |-> [config EXCEPT !.agents = MapSeq(config.agents, repaired)]]

validateConfigTool(context) ==
  LET config == context.config
      errors == EntryPointErrors(config) \o AllToolErrors(config, config.agents)
  IN  [isValid |-> Len(errors) = 0,
       errors  |-> errors,
       config  |-> config]

(***************************************************************************)
(* The inputs the caller draws from.                                       *)
(***************************************************************************)
ToolNames     == {"webSearch", "readURL"}
AgentNames    == {"mainAgent", "researcher"}
WorkflowNames == {"researcher"}

\* Outputs of the tool builder: the optional outputSchema is unset, empty or set.
ToolSpecs ==
  LET tool(name) == [name        |-> name,
                     description |-> "Does " \o name,
                     inputSchema |-> "z.object({})",
                     code        |-> "return {};"]
  IN  {tool("webSearch"),
       tool("webSearch") @@ [outputSchema |-> ""],
       tool("readURL") @@ [outputSchema |-> "z.object({ content: z.string() })"]}

\* The optional dependencies of an add-tool call.
ToolDependencies ==
  {<<>>, [dependencies |-> <<"zod">>], [dependencies |-> <<"zod", "node-fetch">>]}

\* Outputs of the agent builder: the optional description is unset, empty or set.
AgentSpecs ==
  LET agent(name, tools) == [name         |-> name,
                             instructions |-> "You are " \o name,
                             model        |-> "openai('gpt-4.1-nano')",
                             tools        |-> tools]
  IN  UNION {{agent("researcher", tools),
              agent("researcher", tools) @@ [description |-> ""],
              agent("mainAgent", tools) @@ [description |-> "Coordinates"]}
             : tools \in SeqsUpTo(ToolNames, MaxSize - 1)}

InitializeContexts ==
  LET base(type) == [projectName    |-> "web-research-agent",
                     description    |-> "Researches topics on the web.",
                     entryPointType |-> type]
  IN  UNION {{base(type),
              base(type) @@ [dependencies |-> <<>>],
              base(type) @@ [dependencies |-> [k \in {"zod"} |-> "^3.22.4"]]}
             : type \in {"agent", "workflow"}}

EntryPoints ==
  [type : {"agent", "workflow"}, name : AgentNames \cup WorkflowNames]

\* Serialized configurations of existing projects handed to load-config.
Workflow(name) ==
  [name |-> name, description |-> "Runs " \o name, inputSchema |-> "z.object({})",
   outputSchema |-> "z.object({})",
   steps |-> <<[id |-> "step1", type |-> "agent"]>>]

ExistingProject(type, name, workflows) ==
  [projectName  |-> "blog-agent",
   description  |-> "Manages a blog.",
   dependencies |-> [k \in {"@mastra/core"} |-> "^0.10.0"],
   entryPoint   |-> [type |-> type, name |-> name],
   agents       |-> <<>>,
   tools        |-> <<>>,
   workflows    |-> workflows]

ConfigJsons ==
  {[syntaxError |-> TRUE],
   [syntaxError |-> FALSE,
    value |-> ExistingProject("workflow", "researcher", <<Workflow("researcher")>>)
              @@ [version |-> "1.0.0"]],
   [syntaxError |-> FALSE,
    value |-> ExistingProject("function", "main", <<>>)],
   [syntaxError |-> FALSE,
    value |-> Strip(ExistingProject("agent", "mainAgent", <<>>),
                    FinalAgentConfigKeys \ {"workflows"})]}

RECURSIVE SumToolReferences(_)
SumToolReferences(agents) ==
  IF agents = <<>> THEN 0
  ELSE Len(Head(agents).tools) + SumToolReferences(Tail(agents))

Size(config) ==
  Len(config.tools) + Len(config.agents) + Len(config.workflows)
  + SumToolReferences(config.agents)

(***************************************************************************)
(* The caller: one action per tool call.  currentConfig is the             *)
(* configuration it holds and passes as `config` to the next call; call    *)
(* records the last tool call: the tool's id, the other arguments, and     *)
(* what the tool returned or that it threw; a validate-config call also    *)
(* records whether the call before it was a validate-config call too.      *)
(***************************************************************************)
Init ==
  /\ currentConfig = Undefined
  /\ call = [tool |-> "none"]
  /\ plan = Undefined
  /\ phase = "planning"
  /\ completedSteps = <<>>
  /\ build = "object"
  /\ response = Undefined
  /\ disk = {}
  /\ failures = 0

Invoke(tool, arguments, result) ==
  /\ call' = [tool |-> tool, arguments |-> arguments] @@ result
  /\ UNCHANGED orchestratorState

InitializeConfig ==
  /\ currentConfig = Undefined
  /\ \E arguments \in InitializeContexts :
    /\ Invoke("initialize-config", arguments,
              Returned(initializeConfigTool(arguments)))
    /\ currentConfig' = call'.returned

AddAgent ==
  /\ currentConfig # Undefined
  /\ \E arguments \in AgentSpecs :
       /\ Size(currentConfig) + 1 + Len(arguments.tools) <= MaxSize
       /\ Invoke("add-agent", arguments,
                 Returned(addAgentTool([config |-> currentConfig] @@ arguments)))
       /\ currentConfig' = call'.returned

AddTool ==
  /\ currentConfig # Undefined
  /\ Size(currentConfig) + 1 <= MaxSize
  /\ \E spec \in ToolSpecs, deps \in ToolDependencies :
       /\ Invoke("add-tool", spec @@ deps,
                 Returned(addToolTool([config |-> currentConfig] @@ spec @@ deps)))
       /\ currentConfig' = call'.returned

UpdateEntryPoint ==
  /\ currentConfig # Undefined
  /\ \E arguments \in EntryPoints :
       /\ Invoke("update-entry-point", arguments,
                 Returned(updateEntryPointTool([config |-> currentConfig] @@ arguments)))
       /\ currentConfig' = call'.returned

LoadConfig ==
  /\ currentConfig = Undefined
  /\ \E configJson \in ConfigJsons :
    /\ Invoke("load-config", [configJson |-> configJson],
              loadConfigTool([configJson |-> configJson]))
    /\ currentConfig' = IF call'.threw THEN currentConfig ELSE call'.returned

ValidateConfig ==
  /\ currentConfig # Undefined
  /\ Invoke("validate-config", <<>>,
            Returned(validateConfigTool([config |-> currentConfig]))
            @@ [again |-> call.tool = "validate-config"])
  /\ currentConfig' = call'.returned.config

Next ==
  \/ InitializeConfig
  \/ AddAgent
  \/ AddTool
  \/ UpdateEntryPoint
  \/ LoadConfig
  \/ ValidateConfig

Spec == Init /\ [][Next]_vars

(***************************************************************************)
(* The sub-agent tools.  Each one asks a language model for a JSON value   *)
(* (agent.generate); what comes back is `generated`:                       *)
(*   kind "object"       a JSON text whose value matches the output schema *)
(*   kind "mismatch"     a JSON text whose value does not match it         *)
(*   kind "unparseable"  a text that is not JSON                           *)
(*   kind "error"        no text: the call to the model is rejected        *)
(* `value` is the value the JSON text denotes.                             *)
(*                                                                         *)
(* The repository holds two copies of each tool.  The copies named _parse  *)
(* read result.text with JSON.parse inside try/catch and return a fallback *)
(* from the catch; the copies named _object pass the schema as `output`    *)
(* and return result.object, so that generate rejects when no value of the *)
(* schema was produced.                                                    *)
(***************************************************************************)
\* await agent.generate(...) is outside the try block: a rejected call
\* rejects execute.
GenerateRejected == Threw("generate rejected")

FallbackPlan ==
  [projectType   |-> "agent",
   projectName   |-> "custom-agent",
   description   |-> "A custom Mastra agent",
   requiredTools |-> <<[name       |-> "customTool",
                        purpose    |-> "Performs custom functionality",
                        inputType  |-> "user input",
                        outputType |-> "processed result"]>>,
   requiredAgents |-> <<[name        |-> "mainAgent",
                         role        |-> "Main agent for handling user requests",
                         toolsNeeded |-> <<"customTool">>]>>,
   suggestedWorkflow |-> "null"]

\* A variant without the catch branch: the SyntaxError of JSON.parse leaves
\* execute.
planningAgentTool_parse_NoCatch(context, generated) ==
  IF generated.kind = "error" THEN GenerateRejected
  ELSE IF generated.kind = "unparseable" THEN Threw("SyntaxError")
  ELSE Returned(generated.value)

planningAgentTool_parse(context, generated) ==
  IF generated.kind = "error" THEN GenerateRejected
  ELSE IF generated.kind = "unparseable" THEN Returned(FallbackPlan)
  ELSE Returned(generated.value)

\* A variant that returns the fallback plan of the other copy when no object
\* was generated.
planningAgentTool_object_Fallback(context, generated) ==
  IF generated.kind = "object" THEN Returned(generated.value)
  ELSE Returned(FallbackPlan)

planningAgentTool_object(context, generated) ==
  IF generated.kind = "object" THEN Returned(generated.value)
  ELSE GenerateRejected

FallbackToolConfig(toolSpec) ==
  [name         |-> toolSpec.name,
   description  |-> toolSpec.purpose,
   inputSchema  |-> "z.object({ input: z.string().describe('"
                    \o toolSpec.inputType \o "') })",
   outputSchema |-> "z.object({ output: z.string().describe('"
                    \o toolSpec.outputType \o "') })",
   code         |-> "console.log('Executing " \o toolSpec.name
                    \o ":', context); return { output: 'example "
                    \o toolSpec.outputType \o "' };",
   dependencies |-> <<>>]

\* A variant without the catch branch.
toolBuilderAgentTool_parse_NoCatch(context, generated) ==
  IF generated.kind = "error" THEN GenerateRejected
  ELSE IF generated.kind = "unparseable" THEN Threw("SyntaxError")
  ELSE Returned(generated.value)

toolBuilderAgentTool_parse(context, generated) ==
  IF generated.kind = "error" THEN GenerateRejected
  ELSE IF generated.kind = "unparseable"
  THEN Returned(FallbackToolConfig(context.toolSpec))
  ELSE Returned(generated.value)

toolBuilderAgentTool_object(context, generated) ==
  IF generated.kind = "object" THEN Returned(generated.value)
  ELSE GenerateRejected

\* A variant whose placeholder names a tool of its own.
FallbackAgentConfig_OwnTool(agentSpec, availableTools) ==
  [name         |-> agentSpec.name,
   instructions |-> "You are " \o agentSpec.name \o ". " \o agentSpec.role
                    \o ". Use the available tools to help users with their requests.",
   model        |-> "openai('gpt-4o-mini')",
   tools        |-> <<"customTool">>,
   description  |-> agentSpec.role]

FallbackAgentConfig(agentSpec, availableTools) ==
  [name         |-> agentSpec.name,
   instructions |-> "You are " \o agentSpec.name \o ". " \o agentSpec.role
                    \o ". Use the available tools to help users with their requests.",
   model        |-> "openai('gpt-4o-mini')",
   tools        |-> availableTools,
   description  |-> agentSpec.role]

\* A variant without the catch branch.
agentBuilderAgentTool_parse_NoCatch(context, generated) ==
  IF generated.kind = "error" THEN GenerateRejected
  ELSE IF generated.kind = "unparseable" THEN Threw("SyntaxError")
  ELSE Returned(generated.value)

agentBuilderAgentTool_parse(context, generated) ==
  IF generated.kind = "error" THEN GenerateRejected
  ELSE IF generated.kind = "unparseable"
  THEN Returned(FallbackAgentConfig(context.agentSpec, context.availableTools))
  ELSE Returned(generated.value)

agentBuilderAgentTool_object(context, generated) ==
  IF generated.kind = "object" THEN Returned(generated.value)
  ELSE GenerateRejected

(***************************************************************************)
(* scaffold-project                                                        *)
(*                                                                         *)
(* A path is the string path.join makes, relative to process.cwd().  The   *)
(* disk is the set of the paths that exist.  The file system may fail any  *)
(* one of the operations of a call (failAt is its number, 0 for none): the *)
(* operations before it have taken effect, it throws, and the catch block  *)
(* builds the result.  The check mark that starts a log entry is written   *)
(* "+".                                                                    *)
(***************************************************************************)
DefaultOutputPath == "./generated-agents/"

\* path.join(process.cwd(), outputPath), relative to process.cwd()
NormalizedOutputPath(outputPath) ==
  IF outputPath = "./generated-agents/" THEN "generated-agents"
  ELSE IF outputPath = "./out" THEN "out"
  ELSE outputPath

join(directory, name) == directory \o "/" \o name

\* fs.mkdir(dirPath, { recursive: true }) under the output path: the
\* directory and the directories above it.
RECURSIVE MkdirRecursive(_, _)
MkdirRecursive(directory, names) ==
  IF names = <<>> THEN {directory}
  ELSE {directory} \cup MkdirRecursive(join(directory, Head(names)), Tail(names))

\* The file system operations of one call, in order: the paths each one
\* creates and the log entry pushed after it.
ScaffoldOperations(config, outputPath) ==
  LET projectDir == join(NormalizedOutputPath(outputPath), config.projectName)
      srcDir     == join(join(projectDir, "src"), "mastra")
      ensureDir(name) ==
        [creates |-> MkdirRecursive(NormalizedOutputPath(outputPath),
                                    <<config.projectName, "src", "mastra", name>>),
         logs    |-> <<>>]
      writeFile(path, entry) == [creates |-> {path}, logs |-> <<entry>>]
  IN  <<ensureDir("agents"),
        ensureDir("tools"),
        ensureDir("workflows"),
        writeFile(join(projectDir, "package.json"), "+ Generated package.json"),
        writeFile(join(projectDir, "tsconfig.json"), "+ Generated tsconfig.json"),
        writeFile(join(projectDir, ".env"), "+ Generated .env file"),
        writeFile(join(join(srcDir, "tools"), "index.ts"), "+ Generated tools/index.ts"),
        writeFile(join(join(srcDir, "agents"), "index.ts"), "+ Generated agents/index.ts"),
        writeFile(join(join(srcDir, "workflows"), "index.ts"),
                  IF Len(config.workflows) > 0
                  THEN "+ Generated workflows/index.ts"
                  ELSE "+ Generated empty workflows/index.ts"),
        writeFile(join(srcDir, "index.ts"), "+ Generated main index.ts")>>

\* The paths created and the entries logged by the first n operations.
RECURSIVE Created(_, _)
Created(operations, n) ==
  IF n = 0 THEN {} ELSE Created(operations, n - 1) \cup operations[n].creates

RECURSIVE Logged(_, _)
Logged(operations, n) ==
  IF n = 0 THEN <<>> ELSE Logged(operations, n - 1) \o operations[n].logs

\* A variant whose catch block starts the logs afresh.
scaffoldProjectTool_FreshLogs(context, files, failAt) ==
  LET config     == context.config
      outputPath == IF Has(context, "outputPath") THEN context.outputPath
                    ELSE DefaultOutputPath
      projectDir == join(NormalizedOutputPath(outputPath), config.projectName)
      operations == ScaffoldOperations(config, outputPath)
      logs       == <<"Creating project at: " \o projectDir>>
  IN  IF failAt = 0
      THEN [returned |-> [success     |-> TRUE,
                          projectPath |-> projectDir,
                          message     |-> "Project '" \o config.projectName
                                          \o "' scaffolded successfully!",
                          logs        |-> logs \o Logged(operations, Len(operations))],
            disk     |-> files \cup Created(operations, Len(operations))]
      ELSE [returned |-> [success     |-> FALSE,
                          projectPath |-> outputPath,
                          message     |-> "Scaffolding failed: EACCES",
                          logs        |-> <<"Scaffolding failed with error: EACCES">>],
            disk     |-> files \cup Created(operations, failAt - 1)]

scaffoldProjectTool(context, files, failAt) ==
  LET config     == context.config
      outputPath == IF Has(context, "outputPath") THEN context.outputPath
                    ELSE DefaultOutputPath
      projectDir == join(NormalizedOutputPath(outputPath), config.projectName)
      operations == ScaffoldOperations(config, outputPath)
      logs       == <<"Creating project at: " \o projectDir>>
  IN  IF failAt = 0
      THEN [returned |-> [success     |-> TRUE,
                          projectPath |-> projectDir,
                          message     |-> "Project '" \o config.projectName
                                          \o "' scaffolded successfully!",
                          logs        |-> logs \o Logged(operations, Len(operations))],
            disk     |-> files \cup Created(operations, Len(operations))]
      ELSE [returned |-> [success     |-> FALSE,
                          projectPath |-> outputPath,
                          message     |-> "Scaffolding failed: EACCES",
                          logs        |-> (logs \o Logged(operations, failAt - 1))
                                          \o <<"Scaffolding failed with error: EACCES">>],
            disk     |-> files \cup Created(operations, failAt - 1)]

(***************************************************************************)
(* check-scaffolding-status                                                *)
(*                                                                         *)
(* fs.readdir(projectPath, { recursive: true }) gives the paths below the  *)
(* project directory, relative to it; they are taken from RelativePaths,   *)
(* the relative paths of the files and directories that occur.  The result *)
(* holds them as a set: the order readdir lists them in is not fixed.      *)
(* fails says that the file system fails the readdir call.                 *)
(***************************************************************************)
OutputPaths == {"./generated-agents/", "./out"}

RegularFileNames ==
  {"package.json", "tsconfig.json", ".env", "index.ts", "notes.txt"}

RelativePaths ==
  {"package.json", "tsconfig.json", ".env",
   "src", "src/mastra", "src/mastra/index.ts",
   "src/mastra/agents", "src/mastra/agents/index.ts",
   "src/mastra/tools", "src/mastra/tools/index.ts",
   "src/mastra/workflows", "src/mastra/workflows/index.ts",
   "backup", "backup/src", "backup/src/mastra", "backup/src/mastra/index.ts"}

\* stats.isDirectory(): the path is not a regular file of a directory.
IsDirectory(path, files) ==
  ~\E directory \in files \cup {NormalizedOutputPath(o) : o \in OutputPaths} :
     \E name \in RegularFileNames : path = join(directory, name)

readdir(projectPath, files) ==
  {f \in RelativePaths : join(projectPath, f) \in files}

\* f.includes('src/mastra/index.ts'), for f in RelativePaths
IncludesMastraIndex(f) ==
  f \in {"src/mastra/index.ts", "backup/src/mastra/index.ts"}

hasMastraIndex(fileList) == \E f \in fileList : IncludesMastraIndex(f)

\* `${boolean}`
BoolText(b) == IF b THEN "true" ELSE "false"

checkScaffoldingStatusTool(context, files, fails) ==
  LET outputPath  == IF Has(context, "outputPath") THEN context.outputPath
                     ELSE DefaultOutputPath
      projectPath == join(NormalizedOutputPath(outputPath), context.projectName)
      fileList    == readdir(projectPath, files)
      hasPackageJson == "package.json" \in fileList
      hasTsConfig    == "tsconfig.json" \in fileList
      isValid == hasPackageJson /\ hasTsConfig /\ hasMastraIndex(fileList)
  IN  IF projectPath \notin files
      THEN [exists  |-> FALSE,
            isValid |-> FALSE,
            path    |-> projectPath,
            files   |-> {},
            message |-> "Project directory does not exist: " \o projectPath]
      ELSE IF ~IsDirectory(projectPath, files)
      THEN [exists  |-> FALSE,
            isValid |-> FALSE,
            path    |-> projectPath,
            files   |-> {},
            message |-> "Path exists but is not a directory: " \o projectPath]
      ELSE IF fails
      THEN [exists  |-> FALSE,
            isValid |-> FALSE,
            path    |-> "",
            files   |-> {},
            message |-> "Error checking project: EACCES"]
      ELSE [exists  |-> TRUE,
            isValid |-> isValid,
            path    |-> projectPath,
            files   |-> fileList,
            message |-> IF isValid
                        THEN "Project is valid and ready to use at: " \o projectPath
                        ELSE "Project exists but missing essential files."
                             \o " Has package.json: " \o BoolText(hasPackageJson)
                             \o ", tsconfig.json: " \o BoolText(hasTsConfig)
                             \o ", mastra/index.ts: "
                             \o BoolText(hasMastraIndex(fileList))]

(***************************************************************************)
(* What the language models produce.                                       *)
(***************************************************************************)
UserRequest ==
  "Create a web research agent that can search the web and read webpage content"

ToolNamePool ==
  <<"webSearch", "readURL", "summarize", "translate", "extractLinks", "fetchFeed",
    "parseHtml", "rankResults", "saveNote", "sendEmail", "geocode", "getWeather">>

AgentNamePool == <<"researcher", "mainAgent", "writer", "editor">>

\* The plans of the copy that returns the parsed text (planning-agent.ts).
Plans_parse ==
  LET tool(i)  == [name       |-> ToolNamePool[i],
                   purpose    |-> "Provides " \o ToolNamePool[i],
                   inputType  |-> "query",
                   outputType |-> "result"]
      agent(i, T) == [name        |-> AgentNamePool[i],
                      role        |-> "Acts as " \o AgentNamePool[i],
                      toolsNeeded |-> [k \in 1..T |-> ToolNamePool[k]]]
  IN  {[projectType    |-> type,
        projectName    |-> "web-research-agent",
        description    |-> "Researches topics on the web.",
        requiredTools  |-> [i \in 1..T |-> tool(i)],
        requiredAgents |-> [i \in 1..A |-> agent(i, T)],
        suggestedWorkflow |-> "null"]
       : type \in {"agent", "workflow"}, T \in 0..MaxPlanTools, A \in 1..MaxPlanAgents}

\* The plans of the copy that returns result.object (planningAgentTool.outputSchema).
Plans_object ==
  LET tool(i)  == [name      |-> ToolNamePool[i],
                   function  |-> "Provides " \o ToolNamePool[i],
                   reasoning |-> "Needed for research"]
      agent(i) == [name      |-> AgentNamePool[i],
                   role      |-> "Acts as " \o AgentNamePool[i],
                   reasoning |-> "Coordinates the tools"]
  IN  {[projectOverview     |-> "A web research agent",
        requiredAgents      |-> [i \in 1..A |-> agent(i)],
        requiredTools       |-> [i \in 1..T |-> tool(i)],
        dependencies        |-> <<"Web search API">>,
        implementationSteps |-> <<"Create tools", "Build agents">>,
        entryPoint          |-> type,
        recommendations     |-> "Consider caching"]
       : type \in {"agent", "workflow"}, T \in 0..MaxPlanTools, A \in 1..MaxPlanAgents}

\* What a model call may produce, `objects` being the values of the schema
\* and `other` a JSON value that is not one.
Generated(objects, other) ==
  {[kind |-> "object", value |-> v] : v \in objects}
  \cup {[kind |-> "mismatch", value |-> other],
        [kind |-> "unparseable"],
        [kind |-> "error"]}

GeneratedPlans(copy) ==
  Generated(IF copy = "parse" THEN Plans_parse ELSE Plans_object,
            [message |-> "I can not help with that request"])

\* The tool configuration the tool builder's model writes for toolSpec.
GeneratedTools(copy, toolSpec) ==
  LET tool == [name         |-> toolSpec.name,
               description  |-> "Runs " \o toolSpec.name,
               inputSchema  |-> "z.object({ query: z.string() })",
               outputSchema |-> "z.object({ results: z.array(z.string()) })",
               code         |-> "return { results: [] };",
               dependencies |-> <<"node-fetch">>]
  IN  Generated({IF copy = "parse" THEN tool
                 ELSE tool @@ [reasoning |-> "Mock implementation"]},
                [name |-> toolSpec.name, description |-> "Runs " \o toolSpec.name])

\* The agent configuration the agent builder's model writes for agentSpec:
\* the name is a string of the model's choice, the name of the specification
\* or another one.
GeneratedAgents(copy, agentSpec, availableTools) ==
  LET agent == [name         |-> agentSpec.name,
                instructions |-> "You are a web research assistant.",
                model        |-> "openai('gpt-4.1-nano')",
                tools        |-> availableTools]
      written(name) == IF copy = "parse" THEN [agent EXCEPT !.name = name]
                       ELSE [agent EXCEPT !.name = name]
                            @@ [description |-> agentSpec.role,
                                reasoning   |-> "Uses every tool"]
  IN  Generated({written(agentSpec.name), written(agentSpec.name \o "Agent")},
                [name |-> agentSpec.name, instructions |-> "You are a web research assistant."])

(***************************************************************************)
(* The orchestrator agent.  It follows the core process of its             *)
(* instructions, one tool call per step of its generate loop, and passes   *)
(* the configuration a call returned to the next call.  phase is the part  *)
(* of the process the next call belongs to: "planning", "initialization",  *)
(* "tool-creation", "agent-creation", "validation" (update-entry-point,    *)
(* then validate-config), "scaffolding"; then "responding" when the final  *)
(* response is due and "complete" when it is given.  A call that throws,   *)
(* a configuration that is not valid and a scaffolding that failed are     *)
(* steps that failed: the final response is then the failure object.  The  *)
(* generate loop ends after maxSteps steps whatever the phase: "stopped".  *)
(***************************************************************************)
maxSteps == 25

\* The steps of the generate loop made so far: the tool calls and the final
\* response.
StepsUsed == Len(completedSteps) + (IF response = Undefined THEN 0 ELSE 1)

NumCalls(tool) ==
  Cardinality({i \in 1..Len(completedSteps) : completedSteps[i] = tool})

NameList(array) == [i \in 1..Len(array) |-> array[i].name]

\* JSON null
Null == [null |-> TRUE]

SchemaViolation == Threw("Tool validation failed")

\* z.object(...) of the inputSchema accepts the arguments.
InitializeInputOk(arguments) ==
  /\ {"projectName", "description", "entryPointType"} \subseteq DOMAIN arguments
  /\ arguments.entryPointType \in {"agent", "workflow"}

AddToolInputOk(arguments) == ToolConfigKeys \subseteq DOMAIN arguments

AddAgentInputOk(arguments) == AgentConfigKeys \subseteq DOMAIN arguments

\* "using details from the plan (like project name and description)"
ProjectDetails(p) ==
  IF {"projectName", "description", "projectType"} \subseteq DOMAIN p
  THEN [projectName    |-> p.projectName,
        description    |-> p.description,
        entryPointType |-> p.projectType]
  ELSE IF {"projectOverview", "entryPoint"} \subseteq DOMAIN p
  THEN [projectName    |-> "web-research-agent",
        description    |-> p.projectOverview,
        entryPointType |-> p.entryPoint]
  ELSE <<>>

\* The phase of the next call once `built` entries of a loop are added.
\* A variant that leaves the tool loop one entry early.
AfterTools_LeavesEarly(p, built) ==
  IF built < Len(p.requiredTools) - 1 THEN "tool-creation"
  ELSE IF Len(p.requiredAgents) > 0 THEN "agent-creation"
  ELSE "validation"

AfterTools(p, built) ==
  IF built < Len(p.requiredTools) THEN "tool-creation"
  ELSE IF Len(p.requiredAgents) > 0 THEN "agent-creation"
  ELSE "validation"

AfterAgents(p, built) ==
  IF built < Len(p.requiredAgents) THEN "agent-creation" ELSE "validation"

PipelineInit ==
  /\ currentConfig = Undefined
  /\ call = [tool |-> "none"]
  /\ plan = Undefined
  /\ phase = "planning"
  /\ completedSteps = <<>>
  /\ build \in {"parse", "object"}
  /\ response = Undefined
  /\ disk = {}
  /\ failures = 0

\* One tool call of the generate loop.
ToolCall(tool, arguments, result) ==
  /\ StepsUsed < maxSteps
  /\ call' = [tool |-> tool, arguments |-> arguments] @@ result
  /\ completedSteps' = Append(completedSteps, tool)
  /\ UNCHANGED <<build, response>>

\* A model call that produces no object counts against MaxFailures.
ModelCall(generated) ==
  /\ generated.kind # "object" => failures < MaxFailures
  /\ failures' = IF generated.kind = "object" THEN failures ELSE failures + 1

\* What the model call of a sub-agent tool produced, kept with the call.
Outcome(generated) == [generated |-> generated.kind]

\* 1. Plan Generation
PlanningAgent ==
  /\ phase = "planning"
  /\ \E generated \in GeneratedPlans(build) :
       LET context == [userRequest |-> UserRequest]
           result  == IF build = "parse"
                      THEN planningAgentTool_parse(context, generated)
                      ELSE planningAgentTool_object(context, generated)
       IN  /\ ModelCall(generated)
           /\ ToolCall("planning-agent", context, result @@ Outcome(generated))
           /\ plan' = IF result.threw THEN plan ELSE result.returned
           /\ phase' = IF result.threw THEN "responding" ELSE "initialization"
  /\ UNCHANGED <<currentConfig, disk>>

\* 2. Configuration Initialization
InitializeFromPlan ==
  /\ phase = "initialization"
  /\ LET arguments == ProjectDetails(plan)
         result    == IF InitializeInputOk(arguments)
                      THEN Returned(initializeConfigTool(arguments))
                      ELSE SchemaViolation
     IN  /\ ToolCall("initialize-config", arguments, result)
         /\ currentConfig' = IF result.threw THEN currentConfig ELSE result.returned
         /\ phase' = IF result.threw THEN "responding" ELSE AfterTools(plan, 0)
  /\ UNCHANGED <<plan, disk, failures>>

\* 2'. The request is to extend a project: its configuration is loaded
\* instead.
LoadExistingConfig ==
  /\ phase = "initialization"
  /\ InitializeInputOk(ProjectDetails(plan))
  /\ \E configJson \in ConfigJsons :
       LET arguments == [configJson |-> configJson]
           result    == loadConfigTool(arguments)
       IN  /\ ToolCall("load-config", arguments, result)
           /\ currentConfig' = IF result.threw THEN currentConfig ELSE result.returned
           /\ phase' = IF result.threw THEN "responding" ELSE AfterTools(plan, 0)
  /\ UNCHANGED <<plan, disk, failures>>

\* 3a. tool-builder-agent with the next tool's specification from the plan
ToolBuilderAgent ==
  /\ phase = "tool-creation"
  /\ NumCalls("tool-builder-agent") = NumCalls("add-tool")
  /\ LET toolSpec == plan.requiredTools[NumCalls("add-tool") + 1]
         context  == [toolSpec      |-> toolSpec,
                      context       |-> UserRequest,
                      existingTools |-> NameList(currentConfig.tools)]
     IN  \E generated \in GeneratedTools(build, toolSpec) :
           LET result == IF build = "parse"
                         THEN toolBuilderAgentTool_parse(context, generated)
                         ELSE toolBuilderAgentTool_object(context, generated)
           IN  /\ ModelCall(generated)
               /\ ToolCall("tool-builder-agent", context, result @@ Outcome(generated))
               /\ phase' = IF result.threw THEN "responding" ELSE phase
  /\ UNCHANGED <<currentConfig, plan, disk>>

\* A variant that passes add-tool the configuration initialize-config
\* returned, not the latest one.
AddBuiltTool_StaleConfig ==
  /\ phase = "tool-creation"
  /\ NumCalls("tool-builder-agent") = NumCalls("add-tool") + 1
  /\ LET arguments == call.returned
         stale     == [currentConfig EXCEPT !.tools = <<>>]
         result    == IF AddToolInputOk(arguments)
                      THEN Returned(addToolTool([config |-> stale] @@ arguments))
                      ELSE SchemaViolation
     IN  /\ ToolCall("add-tool", arguments, result)
         /\ currentConfig' = IF result.threw THEN currentConfig ELSE result.returned
         /\ phase' = IF result.threw THEN "responding"
                     ELSE AfterTools(plan, NumCalls("add-tool") + 1)
  /\ UNCHANGED <<plan, disk, failures>>

\* 3b. add-tool with the current config and the full output of the builder
AddBuiltTool ==
  /\ phase = "tool-creation"
  /\ NumCalls("tool-builder-agent") = NumCalls("add-tool") + 1
  /\ LET arguments == call.returned
         result    == IF AddToolInputOk(arguments)
                      THEN Returned(addToolTool([config |-> currentConfig] @@ arguments))
                      ELSE SchemaViolation
     IN  /\ ToolCall("add-tool", arguments, result)
         /\ currentConfig' = IF result.threw THEN currentConfig ELSE result.returned
         /\ phase' = IF result.threw THEN "responding"
                     ELSE AfterTools(plan, NumCalls("add-tool") + 1)
  /\ UNCHANGED <<plan, disk, failures>>

\* 4a. agent-builder-agent with the next agent's specification from the plan
\* and the list of the tools created
AgentBuilderAgent ==
  /\ phase = "agent-creation"
  /\ NumCalls("agent-builder-agent") = NumCalls("add-agent")
  /\ LET agentSpec      == plan.requiredAgents[NumCalls("add-agent") + 1]
         availableTools == NameList(currentConfig.tools)
         context        == [agentSpec      |-> agentSpec,
                            availableTools |-> availableTools,
                            context        |-> UserRequest]
     IN  \E generated \in GeneratedAgents(build, agentSpec, availableTools) :
           LET result == IF build = "parse"
                         THEN agentBuilderAgentTool_parse(context, generated)
                         ELSE agentBuilderAgentTool_object(context, generated)
           IN  /\ ModelCall(generated)
               /\ ToolCall("agent-builder-agent", context, result @@ Outcome(generated))
               /\ phase' = IF result.threw THEN "responding" ELSE phase
  /\ UNCHANGED <<currentConfig, plan, disk>>

\* 4b. add-agent with the current config and the full output of the builder
AddBuiltAgent ==
  /\ phase = "agent-creation"
  /\ NumCalls("agent-builder-agent") = NumCalls("add-agent") + 1
  /\ LET arguments == call.returned
         result    == IF AddAgentInputOk(arguments)
                      THEN Returned(addAgentTool([config |-> currentConfig] @@ arguments))
                      ELSE SchemaViolation
     IN  /\ ToolCall("add-agent", arguments, result)
         /\ currentConfig' = IF result.threw THEN currentConfig ELSE result.returned
         /\ phase' = IF result.threw THEN "responding"
                     ELSE AfterAgents(plan, NumCalls("add-agent") + 1)
  /\ UNCHANGED <<plan, disk, failures>>

\* 5a. update-entry-point with the latest config and the name of the main
\* agent from the plan.  The instructions name no type for the call: it is
\* the type of the plan or, the name being that of an agent, "agent" as in
\* the example input.
UpdateEntryPointToMain ==
  /\ phase = "validation"
  /\ call.tool # "update-entry-point"
  /\ \E i \in 1..Len(plan.requiredAgents),
        type \in {ProjectDetails(plan).entryPointType, "agent"} :
       LET arguments == [type |-> type,
                         name |-> plan.requiredAgents[i].name]
           result    == Returned(updateEntryPointTool([config |-> currentConfig]
                                                      @@ arguments))
       IN  /\ ToolCall("update-entry-point", arguments, result)
           /\ currentConfig' = result.returned
  /\ UNCHANGED <<plan, phase, disk, failures>>

\* A variant that goes on to scaffold-project whatever validate-config
\* returned.
ValidateFinalConfig_ScaffoldsAnyway ==
  /\ phase = "validation"
  /\ call.tool = "update-entry-point"
  /\ LET result == Returned(validateConfigTool([config |-> currentConfig]))
     IN  /\ ToolCall("validate-config", <<>>, result)
         /\ currentConfig' = result.returned.config
         /\ phase' = "scaffolding"
  /\ UNCHANGED <<plan, disk, failures>>

\* 5b. validate-config with the final config
ValidateFinalConfig ==
  /\ phase = "validation"
  /\ call.tool = "update-entry-point"
  /\ LET result == Returned(validateConfigTool([config |-> currentConfig]))
     IN  /\ ToolCall("validate-config", <<>>, result)
         /\ currentConfig' = result.returned.config
         /\ phase' = IF result.returned.isValid THEN "scaffolding" ELSE "responding"
  /\ UNCHANGED <<plan, disk, failures>>

\* 5c. "If validation succeeds, call scaffold-project"
ScaffoldProject ==
  /\ phase = "scaffolding"
  /\ \E failAt \in 0..Len(ScaffoldOperations(currentConfig, DefaultOutputPath)) :
       LET arguments == [config |-> currentConfig]
           result    == scaffoldProjectTool(arguments, disk, failAt)
       IN  /\ ToolCall("scaffold-project", <<>>, Returned(result.returned))
           /\ disk' = result.disk
  /\ phase' = "responding"
  /\ UNCHANGED <<currentConfig, plan, failures>>

\* FINAL OUTPUT FORMAT: the success object when every step succeeded, else
\* the failure object.
\* A variant that takes any scaffold-project call that returned for a success.
Succeeded_AnyResult ==
  /\ call.tool = "scaffold-project"
  /\ ~call.threw

Succeeded ==
  /\ call.tool = "scaffold-project"
  /\ ~call.threw
  /\ call.returned.success

\* A variant whose failure object carries the configuration built so far.
FinalResponse_KeepsConfig ==
  [responseType |-> "MastraMetaAgentFinalConfig",
   status       |-> IF Succeeded THEN "success" ELSE "failure",
   message      |-> IF Succeeded
                    THEN "The Mastra agent has been successfully generated."
                    ELSE "The " \o call.tool \o " step failed.",
   finalConfig  |-> IF currentConfig = Undefined THEN Null ELSE currentConfig]

FinalResponse ==
  IF Succeeded
  THEN [responseType |-> "MastraMetaAgentFinalConfig",
        status       |-> "success",
        message      |-> "The Mastra agent has been successfully generated.",
        finalConfig  |-> currentConfig]
  ELSE [responseType |-> "MastraMetaAgentFinalConfig",
        status       |-> "failure",
        message      |-> "The " \o call.tool \o " step failed.",
        finalConfig  |-> Null]

FinalOutput ==
  /\ phase = "responding"
  /\ StepsUsed < maxSteps
  /\ response' = FinalResponse
  /\ phase' = "complete"
  /\ UNCHANGED <<currentConfig, call, plan, completedSteps, build, disk, failures>>

\* maxSteps: the generate loop makes no further step and returns what it has.
MaxStepsReached ==
  /\ phase \notin {"complete", "stopped"}
  /\ StepsUsed >= maxSteps
  /\ phase' = "stopped"
  /\ UNCHANGED <<currentConfig, call, plan, completedSteps, build, response, disk,
                 failures>>

PipelineNext ==
  \/ PlanningAgent
  \/ InitializeFromPlan
  \/ LoadExistingConfig
  \/ ToolBuilderAgent
  \/ AddBuiltTool
  \/ AgentBuilderAgent
  \/ AddBuiltAgent
  \/ UpdateEntryPointToMain
  \/ ValidateFinalConfig
  \/ ScaffoldProject
  \/ FinalOutput
  \/ MaxStepsReached

Pipeline == PipelineInit /\ [][PipelineNext]_vars

(***************************************************************************)
(* The scaffolding tools called on a disk that may hold earlier files:     *)
(* specification Scaffolding.  currentConfig is the configuration whose    *)
(* project is scaffolded; the disk starts empty, or with what is left of   *)
(* an earlier project (a copy of its sources moved to backup/), or with a  *)
(* regular file where a project directory would be.                        *)
(***************************************************************************)
ScaffoldedConfigs ==
  {initializeConfigTool([projectName    |-> "web-research-agent",
                         description    |-> "Researches topics on the web.",
                         entryPointType |-> "agent"]),
   ExistingProject("workflow", "researcher", <<Workflow("researcher")>>)}

ProbedProjectNames == {"web-research-agent", "blog-agent", "notes.txt"}

InitialDisks ==
  {{},
   MkdirRecursive("generated-agents",
                  <<"web-research-agent", "backup", "src", "mastra">>)
     \cup {"generated-agents/web-research-agent/backup/src/mastra/index.ts"},
   {"generated-agents", "generated-agents/notes.txt"}}

OptionalOutputPath == {<<>>, [outputPath |-> "./out"]}

ScaffoldingInit ==
  /\ currentConfig \in ScaffoldedConfigs
  /\ call = [tool |-> "none"]
  /\ plan = Undefined
  /\ phase = "planning"
  /\ completedSteps = <<>>
  /\ build = "object"
  /\ response = Undefined
  /\ disk \in InitialDisks
  /\ failures = 0

ScaffoldProjectCall ==
  /\ \E option \in OptionalOutputPath :
       \E failAt \in 0..Len(ScaffoldOperations(currentConfig, DefaultOutputPath)) :
         LET result == scaffoldProjectTool([config |-> currentConfig] @@ option,
                                           disk, failAt)
         IN  /\ call' = [tool |-> "scaffold-project", arguments |-> option]
                        @@ Returned(result.returned)
             /\ disk' = result.disk
  /\ UNCHANGED <<currentConfig, plan, phase, completedSteps, build, response,
                 failures>>

CheckScaffoldingStatus ==
  /\ \E projectName \in ProbedProjectNames :
       \E option \in OptionalOutputPath :
         \E fails \in BOOLEAN :
           LET arguments == [projectName |-> projectName] @@ option
           IN  call' = [tool      |-> "check-scaffolding-status",
                        arguments |-> arguments]
                       @@ Returned(checkScaffoldingStatusTool(arguments, disk, fails))
  /\ UNCHANGED <<currentConfig, plan, phase, completedSteps, build, response,
                 disk, failures>>

ScaffoldingNext ==
  \/ ScaffoldProjectCall
  \/ CheckScaffoldingStatus

Scaffolding == ScaffoldingInit /\ [][ScaffoldingNext]_vars

(***************************************************************************)
(* Properties of the stage operations.  A property of one call is stated   *)
(* on the step of that call: currentConfig is the configuration passed in, *)
(* call' the call made and currentConfig' the configuration returned.      *)
(***************************************************************************)
Range(array) == {array[i] : i \in 1..Len(array)}

\* The ToolSpec handed to add-tool: its arguments without `dependencies`.
GivenToolSpec(arguments) == Strip(arguments, ToolConfigKeys \cup {"outputSchema"})

\* The list is the old list with exactly one entry more, at the end.
GrowsByOne(old, new) ==
  /\ Len(new) = Len(old) + 1
  /\ \A i \in 1..Len(old) : new[i] = old[i]

C2_DependenciesFirstWriterWins ==
  [][(call'.tool = "add-tool" /\ "dependencies" \in DOMAIN call'.arguments) =>
       LET supplied == Range(call'.arguments.dependencies)
           old      == currentConfig.dependencies
           new      == currentConfig'.dependencies
       IN  /\ DOMAIN new = DOMAIN old \cup supplied
           /\ \A d \in DOMAIN old : new[d] = old[d]
           /\ \A d \in supplied \ DOMAIN old : new[d] = "latest"]_vars

(***************************************************************************)
(* validate-config: what the error list must be, stated on the             *)
(* configuration and not through the loops of the tool.                    *)
(***************************************************************************)
Names(array) == {array[i].name : i \in 1..Len(array)}

\* The list entryPoint.type selects.
EntryPointList(config) ==
  IF config.entryPoint.type = "agent" THEN config.agents ELSE config.workflows

EntryPointResolves(config) == config.entryPoint.name \in Names(EntryPointList(config))

IsEntryPointError(error, config) ==
  \/ error = "Entry point agent '" \o config.entryPoint.name
             \o "' not found in agents list"
  \/ error = "Entry point workflow '" \o config.entryPoint.name
             \o "' not found in workflows list"

NamesToolAndAgent(error, toolName, agentName) ==
  error = "Tool '" \o toolName \o "' used by agent '" \o agentName
          \o "' not found in tools list"

Count(array, P(_)) == Cardinality({i \in 1..Len(array) : P(array[i])})

\* The positions <<i, j>> of the tool references that do not resolve.
References(config) ==
  UNION {{<<i, j>> : j \in 1..Len(config.agents[i].tools)} : i \in 1..Len(config.agents)}

ReferencedTool(config, ref) == config.agents[ref[1]].tools[ref[2]]

DanglingReferences(config) ==
  {ref \in References(config) : ReferencedTool(config, ref) \notin Names(config.tools)}

C5_NoShortCircuit ==
  call.tool = "validate-config" =>
    LET config   == currentConfig
        errors   == call.returned.errors
        dangling == DanglingReferences(config)
        first    == IF EntryPointResolves(config) THEN 0 ELSE 1
        Before(p, q) == p[1] < q[1] \/ (p[1] = q[1] /\ p[2] < q[2])
        position(ref) == first + 1 + Cardinality({q \in dangling : Before(q, ref)})
    IN  /\ Len(errors) = first + Cardinality(dangling)
        /\ first = 1 => IsEntryPointError(errors[1], config)
        /\ \A ref \in dangling :
             NamesToolAndAgent(errors[position(ref)], ReferencedTool(config, ref),
                               config.agents[ref[1]].name)
        /\ call.returned.isValid = (errors = <<>>)

\* validate has returned the entry-point error followed by the dangling
\* references of two agents, in the order of the agents.
C5_Witness ==
  /\ call.tool = "validate-config"
  /\ ~call.returned.isValid
  /\ Len(call.returned.errors) = 3
  /\ Len(currentConfig.agents) = 2
  /\ currentConfig.agents[1].name # currentConfig.agents[2].name
  /\ \A i \in 1..2 : Len(currentConfig.agents[i].tools) = 1
  /\ IsEntryPointError(call.returned.errors[1], currentConfig)
  /\ NamesToolAndAgent(call.returned.errors[2], currentConfig.agents[1].tools[1],
                       currentConfig.agents[1].name)
  /\ NamesToolAndAgent(call.returned.errors[3], currentConfig.agents[2].tools[1],
                       currentConfig.agents[2].name)

HasDuplicateNames(array) == Cardinality(Names(array)) < Len(array)

\* C6 as stated: validate reports a configuration in which two agents, two
\* tools or two workflows share a name as not valid, with a nonempty error list.
C6_DuplicateNamesRejected ==
  (/\ call.tool = "validate-config"
   /\ \/ HasDuplicateNames(currentConfig.agents)
      \/ HasDuplicateNames(currentConfig.tools)
      \/ HasDuplicateNames(currentConfig.workflows))
  => (~call.returned.isValid /\ call.returned.errors # <<>>)

\* C7: validate is pure: the configuration it is passed is the configuration
\* the caller holds afterwards and the configuration echoed in the result,
\* and a second call on it returns the isValid and the errors of the first.
C7_ValidatePure ==
  [][call'.tool = "validate-config" =>
       /\ currentConfig' = currentConfig
       /\ call'.returned.config = currentConfig
       /\ call.tool = "validate-config" =>
            /\ call'.returned.isValid = call.returned.isValid
            /\ call'.returned.errors = call.returned.errors]_vars

\* validate has been called twice in a row on a configuration with a dangling
\* reference, and has reported it.
C7_Witness ==
  /\ call.tool = "validate-config"
  /\ call.again
  /\ DanglingReferences(currentConfig) # {}
  /\ call.returned.errors # <<>>
  /\ call.returned.config = currentConfig

\* C8: init returns the given projectName and description, empty agents,
\* tools and workflows, the requested entry point type with the name
\* "mainAgent" for an agent and "mainWorkflow" otherwise, and as dependencies
\* the caller's map when there is one, else the three base packages at "latest".
C8_InitializeConfig ==
  call.tool = "initialize-config" =>
    LET arguments == call.arguments
        config    == call.returned
    IN  /\ ~call.threw
        /\ currentConfig = config
        /\ DOMAIN config = FinalAgentConfigKeys
        /\ config.projectName = arguments.projectName
        /\ config.description = arguments.description
        /\ config.agents = <<>> /\ config.tools = <<>> /\ config.workflows = <<>>
        /\ config.entryPoint.type = arguments.entryPointType
        /\ arguments.entryPointType = "agent" => config.entryPoint.name = "mainAgent"
        /\ arguments.entryPointType # "agent" => config.entryPoint.name = "mainWorkflow"
        /\ IF "dependencies" \in DOMAIN arguments
           THEN config.dependencies = arguments.dependencies
           ELSE /\ DOMAIN config.dependencies = {"@mastra/core", "@ai-sdk/openai", "zod"}
                /\ \A k \in DOMAIN config.dependencies : config.dependencies[k] = "latest"

\* init has built a workflow project for a caller who supplied an empty map.
C8_Witness ==
  /\ call.tool = "initialize-config"
  /\ call.arguments.entryPointType = "workflow"
  /\ "dependencies" \in DOMAIN call.arguments
  /\ call.arguments.dependencies = <<>>
  /\ currentConfig.entryPoint.name = "mainWorkflow"
  /\ currentConfig.dependencies = <<>>

\* The fields of a configuration other than the given ones are unchanged.
OthersUnchanged(old, new, changed) ==
  /\ DOMAIN new = DOMAIN old
  /\ \A k \in DOMAIN old \ changed : new[k] = old[k]

C10_EntryPointReplaced ==
  [][call'.tool = "update-entry-point" =>
       /\ ~call'.threw
       /\ currentConfig'.entryPoint = [type |-> call'.arguments.type,
                                       name |-> call'.arguments.name]
       /\ OthersUnchanged(currentConfig, currentConfig', {"entryPoint"})]_vars

\* set-entry-point has set a workflow entry point that no workflow has, on a
\* configuration that holds agents and tools.
C10_Witness ==
  /\ call.tool = "update-entry-point"
  /\ currentConfig.entryPoint = [type |-> "workflow", name |-> "mainAgent"]
  /\ ~EntryPointResolves(currentConfig)
  /\ currentConfig.agents # <<>>
  /\ currentConfig.tools # <<>>

(***************************************************************************)
(* Build sequences.                                                        *)
(***************************************************************************)
\* The entry point is an agent of the configuration and every tool an agent
\* names is a tool of the configuration.
WellFormed(config) ==
  /\ config.entryPoint.type = "agent"
  /\ config.entryPoint.name \in Names(config.agents)
  /\ \A i \in 1..Len(config.agents) :
       Range(config.agents[i].tools) \subseteq Names(config.tools)

\* C11: validate returns isValid = true and no errors on every configuration
\* built by add-tool and add-agent calls in which the agents only name added
\* tools, once set-entry-point has named one of the added agents.
C11_WellFormedValidates ==
  (call.tool = "validate-config" /\ WellFormed(currentConfig))
  => (/\ ~call.threw
      /\ call.returned.isValid = TRUE
      /\ call.returned.errors = <<>>)

\* Scenario B with a second tool: validate has accepted a configuration with
\* the tools webSearch and readURL, the agent researcher that uses readURL,
\* and the entry point set from mainAgent to researcher.
C11_Witness ==
  /\ call.tool = "validate-config"
  /\ call.returned.isValid
  /\ Len(currentConfig.tools) = 2
  /\ currentConfig.tools[1].name = "webSearch"
  /\ currentConfig.tools[2].name = "readURL"
  /\ Len(currentConfig.agents) = 1
  /\ currentConfig.agents[1].name = "researcher"
  /\ currentConfig.agents[1].tools = <<"readURL">>
  /\ currentConfig.entryPoint = [type |-> "agent", name |-> "researcher"]
  /\ currentConfig.projectName = "web-research-agent"

(***************************************************************************)
(* Properties of a run of the orchestrator (specification Pipeline).       *)
(***************************************************************************)
\* A call of a tool of the orchestrator, a sub-agent (Generator), stage
\* operation or scaffolding (Materializer) call, is made in this step.
ToolCalled == completedSteps' # completedSteps

LoadOutcome(c) ==
  \/ c.threw /\ c.error \in {"Invalid configuration: SyntaxError",
                             "Invalid configuration: ZodError"}
  \/ ~c.threw /\ FinalAgentConfigSchemaOk(c.returned)

PlanningCall(c)  == c.tool = "planning-agent"
NoPlanOutput(c)  == c.generated \in {"unparseable", "mismatch"}
FailureResponse  == response.status = "failure" /\ response.finalConfig = Null
FailureDue       == phase \in {"responding", "complete"}
                    /\ (phase = "complete" => FailureResponse)

C14_ToolBuilderFailureRecovered ==
  [][/\ (call'.tool = "tool-builder-agent" /\ NoPlanOutput(call'))
          => /\ ~call'.threw
             /\ call'.returned.name = call'.arguments.toolSpec.name
             /\ AddToolInputOk(call'.returned)
             /\ phase' = "tool-creation"
     /\ (phase = "tool-creation" /\ phase' # "tool-creation")
          => /\ phase' = "agent-creation"
             /\ NumCalls("add-tool")' = Len(plan.requiredTools)]_vars

\* C15 as stated: when the agent builder's model output is unparseable or is
\* not an agent configuration, the call still returns an agent configuration
\* with the name of the plan entry and the names of all the tools of the
\* configuration as its tools, add-agent accepts it, and the agent loop goes
\* on; when the loop is left the configuration has gained one agent per
\* entry of the plan.
C15_AgentBuilderFailureRecovered ==
  [][/\ (call'.tool = "agent-builder-agent" /\ NoPlanOutput(call'))
          => /\ ~call'.threw
             /\ AddAgentInputOk(call'.returned)
             /\ call'.returned.name = call'.arguments.agentSpec.name
             /\ call'.returned.tools = NameList(currentConfig.tools)
             /\ phase' = "agent-creation"
     /\ (phase = "agent-creation" /\ phase' # "agent-creation")
          => /\ phase' = "validation"
             /\ NumCalls("add-agent")' = Len(plan.requiredAgents)]_vars

\* C16 as stated: at most maxSteps calls are made, and a run whose steps are
\* used up before it is complete ends with the failure response (reason
\* "step budget exceeded").
C16_StepBudgetFails ==
  /\ Len(completedSteps) <= maxSteps
  /\ phase = "stopped" => (response # Undefined /\ FailureResponse)

\* The stage a call belongs to: 1 planning, 2 initialization, 3 tool
\* creation, 4 agent creation, and in the finalization 5 update-entry-point,
\* 6 validate-config, 7 scaffold-project.
StageRank(tool) ==
  CASE tool = "planning-agent"                        -> 1
    [] tool \in {"initialize-config", "load-config"}  -> 2
    [] tool \in {"tool-builder-agent", "add-tool"}    -> 3
    [] tool \in {"agent-builder-agent", "add-agent"}  -> 4
    [] tool = "update-entry-point"                    -> 5
    [] tool = "validate-config"                       -> 6
    [] tool = "scaffold-project"                      -> 7

ProjectDirectory(config) ==
  join(NormalizedOutputPath(DefaultOutputPath), config.projectName)

\* What the final response and the last call hold when the run is complete.
SucceededPayload ==
  /\ response.finalConfig # Null
  /\ response.finalConfig = currentConfig
  /\ FinalAgentConfigSchemaOk(response.finalConfig)
  /\ call.tool = "scaffold-project"
  /\ call.returned.success
  /\ call.returned.projectPath = ProjectDirectory(currentConfig)
  /\ call.returned.projectPath \in disk

FailedPayload ==
  /\ response.finalConfig = Null
  /\ response.message # ""

TerminalPayload ==
  /\ response # Undefined
  /\ response.status \in {"success", "failure"}
  /\ response.status = "success" => SucceededPayload
  /\ response.status = "failure" => FailedPayload

RECURSIVE EntriesOfWritten(_, _, _)
EntriesOfWritten(operations, n, files) ==
  IF n = 0 THEN <<>>
  ELSE EntriesOfWritten(operations, n - 1, files)
       \o (IF operations[n].creates \subseteq files
           THEN operations[n].logs ELSE <<>>)

\* C20: a scaffold-project call returns and never throws.  Its logs are the
\* entry that announces the project directory, then the entries of the files
\* that were written, in the order of the writes, then, when a directory
\* creation or a write failed, the failure entry; success is TRUE exactly
\* when every directory and file exists afterwards, and then projectPath is
\* the project directory; on a failure success is FALSE and the message
\* names the error.
C20_ScaffoldNeverThrows ==
  [][(ToolCalled /\ call'.tool = "scaffold-project") =>
       LET result     == call'.returned
           operations == ScaffoldOperations(currentConfig, DefaultOutputPath)
           all        == Created(operations, Len(operations))
       IN  /\ ~call'.threw
           /\ DOMAIN result = {"success", "projectPath", "message", "logs"}
           /\ result.success <=> all \subseteq disk'
           /\ result.success => result.projectPath = ProjectDirectory(currentConfig)
           /\ ~result.success => result.message = "Scaffolding failed: EACCES"
           /\ disk \subseteq disk' /\ disk' \subseteq disk \cup all
           /\ result.logs =
                (<<"Creating project at: " \o ProjectDirectory(currentConfig)>>
                 \o EntriesOfWritten(operations, Len(operations), disk'))
                \o (IF result.success THEN <<>>
                    ELSE <<"Scaffolding failed with error: EACCES">>)]_vars

C20_Witness ==
  /\ call.tool = "scaffold-project"
  /\ ~call.threw
  /\ ~call.returned.success
  /\ Len(call.returned.logs) >= 4
  /\ ProjectDirectory(currentConfig) \in disk

C22_EndsWithEnvelope ==
  ~ENABLED PipelineNext
    => /\ phase = "complete"
       /\ response # Undefined
       /\ response.status \in {"success", "failure"}

(***************************************************************************)
(* Properties of the scaffolding tools (specification Scaffolding).        *)
(***************************************************************************)
ProbedPath(arguments) ==
  join(NormalizedOutputPath(IF Has(arguments, "outputPath")
                            THEN arguments.outputPath ELSE DefaultOutputPath),
       arguments.projectName)

\* The project directory exists and holds package.json, tsconfig.json and
\* src/mastra/index.ts.
WellFormedTree(projectPath, files) ==
  /\ projectPath \in files
  /\ IsDirectory(projectPath, files)
  /\ join(projectPath, "package.json") \in files
  /\ join(projectPath, "tsconfig.json") \in files
  /\ join(join(join(projectPath, "src"), "mastra"), "index.ts") \in files

\* The probe of this call was not stopped by a file system error.
Probed(c) == c.tool = "check-scaffolding-status" /\ c.returned.path # ""

\* C23 as stated: check-scaffolding-status leaves the disk as it is; it
\* returns isValid = TRUE exactly when the project directory exists with
\* package.json, tsconfig.json and src/mastra/index.ts in it, and then
\* exists = TRUE; called for the project and output path of a
\* scaffold-project call that just returned success = TRUE, it returns
\* exists = TRUE and isValid = TRUE.
C23_StatusIffWellFormed ==
  [][/\ call'.tool = "check-scaffolding-status" => disk' = disk
     /\ Probed(call')
          => /\ call'.returned.isValid
                  <=> WellFormedTree(ProbedPath(call'.arguments), disk)
             /\ call'.returned.isValid => call'.returned.exists
     /\ (/\ call.tool = "scaffold-project"
         /\ call.returned.success
         /\ Probed(call')
         /\ call'.arguments = [projectName |-> currentConfig.projectName]
                              @@ call.arguments)
          => (call'.returned.exists /\ call'.returned.isValid)]_vars

(***************************************************************************)
(* The configuration over a sequence of calls.                             *)
(***************************************************************************)
IsPrefix(old, new) ==
  /\ Len(old) <= Len(new)
  /\ \A i \in 1..Len(old) : new[i] = old[i]

\* C24: an add-tool, add-agent or update-entry-point call on the
\* configuration held returns a configuration with the same projectName and
\* description, whose agents, tools and workflows start with the lists held
\* before, and whose dependencies have every key held before; so this holds
\* from any step of a sequence of such calls to any later one.
C24_ConfigurationGrows ==
  [][call'.tool \in {"add-tool", "add-agent", "update-entry-point"} =>
       /\ ~call'.threw
       /\ currentConfig'.projectName = currentConfig.projectName
       /\ currentConfig'.description = currentConfig.description
       /\ IsPrefix(currentConfig.agents, currentConfig'.agents)
       /\ IsPrefix(currentConfig.tools, currentConfig'.tools)
       /\ IsPrefix(currentConfig.workflows, currentConfig'.workflows)
       /\ DOMAIN currentConfig.dependencies \subseteq DOMAIN currentConfig'.dependencies]_vars

C24_Witness ==
  /\ call.tool = "add-tool"
  /\ Has(call.arguments, "dependencies")
  /\ call.arguments.dependencies # <<>>
  /\ Len(currentConfig.tools) >= 2
  /\ Len(currentConfig.agents) >= 1
  /\ DOMAIN call.arguments.dependencies # {}
  /\ Cardinality(DOMAIN currentConfig.dependencies) >= 4

\* The run was started by initialize-config, not by load-config.
CreateMode ==
  /\ Len(completedSteps) >= 2
  /\ completedSteps[2] = "initialize-config"

RunSucceeded ==
  /\ phase = "complete"
  /\ response.status = "success"

WorkflowPlanned ==
  /\ plan # Undefined
  /\ ProjectDetails(plan) # <<>>
  /\ ProjectDetails(plan).entryPointType = "workflow"

AgentPlanned ==
  /\ plan # Undefined
  /\ ProjectDetails(plan) # <<>>
  /\ ProjectDetails(plan).entryPointType = "agent"

\* C28: when the plan declares an agent as the entry point and an agent was
\* built, the update-entry-point call names an agent of the configuration
\* and validate-config reports no entry-point error.
C28_EntryPointAgentFound ==
  (AgentPlanned /\ NumCalls("update-entry-point") = 1
     /\ Len(currentConfig.agents) >= 1)
    => /\ FindByName(currentConfig.agents, currentConfig.entryPoint.name)
       /\ call.tool = "validate-config" => EntryPointErrors(call.returned.config) = <<>>

\* The number of entries of the plan of the run, T + A.
PlanSize == Len(plan.requiredTools) + Len(plan.requiredAgents)

\* C29: a run whose plan has 11 or more entries never calls
\* scaffold-project, and a run whose plan has 10 or fewer entries is never
\* stopped by maxSteps.
C29_BudgetCapsPlanSize ==
  (plan # Undefined /\ "requiredTools" \in DOMAIN plan)
    => /\ PlanSize >= 11 => NumCalls("scaffold-project") = 0
       /\ PlanSize <= 10 => phase # "stopped"

\* The agent builder call just made returned the fallback configuration:
\* the text of its model was no JSON.
FellBack ==
  /\ call.tool = "agent-builder-agent"
  /\ build = "parse"
  /\ call.generated = "unparseable"

\* Every agent of the configuration is the fallback configuration of its
\* entry of the plan.
AllPlaceholders ==
  /\ Len(currentConfig.agents) = Len(plan.requiredAgents)
  /\ \A j \in 1..Len(currentConfig.agents) :
       currentConfig.agents[j]
         = StripAgent(FallbackAgentConfig(plan.requiredAgents[j],
                                          NameList(currentConfig.tools)))

\* C30: an agent builder call that falls back returns an agent every tool of
\* which is a tool of the configuration, and validate-config on a
\* configuration all of whose agents are fallback configurations reports no
\* tool that is not found.
C30_PlaceholderToolsResolve ==
  [][/\ (ToolCalled /\ FellBack')
          => /\ ~call'.threw
             /\ call'.returned.tools = NameList(currentConfig.tools)
             /\ \A j \in 1..Len(call'.returned.tools) :
                  FindByName(currentConfig'.tools, call'.returned.tools[j])
     /\ (ToolCalled /\ call'.tool = "validate-config" /\ CreateMode
           /\ build = "parse" /\ AllPlaceholders')
          => /\ AllToolErrors(currentConfig', currentConfig'.agents) = <<>>
             /\ call'.returned.errors = EntryPointErrors(currentConfig')]_vars

C30_Witness ==
  /\ call.tool = "validate-config"
  /\ CreateMode
  /\ build = "parse"
  /\ AllPlaceholders
  /\ Len(currentConfig.tools) >= 2
  /\ currentConfig.agents[1].tools = NameList(currentConfig.tools)
  /\ call.returned.isValid

====
